---- MODULE Spec2Model ----
(***************************************************************************)
(* The training-job registry of deepaas/api/v2/train.py: one Handler per   *)
(* model, each owning the dict _trainings (uuid -> {date, task}); the      *)
(* handlers post, get, index and delete; the asyncio tasks the records     *)
(* hold; and the delete calls suspended in asyncio.wait_for.               *)
(***************************************************************************)
EXTENDS Integers, Sequences, FiniteSets, TLC

\* ------------------------------------------------------------------ bounds
\* tasks created plus delete calls suspended in wait_for: up to three jobs, or
\* two jobs and a waiting delete, or one job and two deletes waiting at once
MaxLive == 3

\* jobs submitted, over all handlers, where requests go to every handler
MaxJobs == 2

\* ------------------------------------------------------- program constants
Grace == 5        \* asyncio.wait_for(training["task"], 5)

Models == {"m1", "m2"}          \* the keys of model.V2_MODELS
Routed == {"m1"}                \* the model whose routes the requests of Spec go to
UUIDS == 1..(MaxLive + 1)       \* values of uuid.uuid4().hex; one is never issued

\* ------------------------------------------------------------- exceptions
NoneExc == [type |-> "None", args |-> <<>>]
CancelledError == [type |-> "CancelledError", args |-> <<>>]
TimeoutError == [type |-> "TimeoutError", args |-> <<>>]
\* What the training may raise: ValueError("bad data") and ValueError()
Exceptions ==
    { [type |-> "ValueError", args |-> <<"bad data">>],
      [type |-> "ValueError", args |-> <<>>] }

\* "%s" % exc: str() of an exception is "" without arguments, the argument
\* itself with one, and the repr of the tuple of arguments otherwise
Str(exc) ==
    IF Len(exc.args) = 0 THEN ""
    ELSE IF Len(exc.args) = 1 THEN exc.args[1]
    ELSE "(...)"

\* ------------------------------------------------------------------ tasks
\* How the coroutine behind a task may end: it returns (NoneExc) or raises
Outcomes == {NoneExc} \cup Exceptions

\* model_obj.train(**args): a new task, pending, nothing awaited yet
train ==
    [state |-> "PENDING", exception |-> NoneExc, must_cancel |-> FALSE]

task_cancelled(task) == task.state = "CANCELLED"

task_done(task) == task.state # "PENDING"

\* task.exception(): raises CancelledError on a cancelled task
task_exception(task) ==
    IF task.state = "CANCELLED" THEN [raised |-> CancelledError, value |-> NoneExc]
    ELSE [raised |-> NoneExc, value |-> task.exception]

\* task.cancel(): no effect on a done task, else requests the cancellation
task_cancel(task) ==
    IF task_done(task) THEN task ELSE [task EXCEPT !.must_cancel = TRUE]

\* truth value of "if exc:": None is false; an exception object is true unless
\* its class defines __bool__ or __len__, which those of Exceptions do not
Truthy(exc) == exc # NoneExc

\* ------------------------------------------------------- the dict of a handler
NoneTraining == [none |-> TRUE]
NoneSnap == [status |-> "None"]

dict_keys(d) == { d[i].uuid : i \in 1..Len(d) }

dict_get(d, k) ==
    LET hits == SelectSeq(d, LAMBDA it : it.uuid = k)
    IN  IF hits = <<>> THEN NoneTraining ELSE hits[1]

\* an assignment that makes a new dict of the one item
dict_set_replaces_all(d, k, date, task) ==
    << [uuid |-> k, date |-> date, task |-> task] >>

\* d[k] = v: a new key goes last, an existing key keeps its place
dict_set(d, k, date, task) ==
    LET item == [uuid |-> k, date |-> date, task |-> task]
    IN  IF k \in dict_keys(d)
        THEN [i \in 1..Len(d) |-> IF d[i].uuid = k THEN item ELSE d[i]]
        ELSE Append(d, item)

VARIABLES
    trainings,   \* per model, Handler._trainings as the sequence of its items
    tasks,       \* the task objects, in creation order
    calls,       \* the delete calls that passed the lookup, in arrival order
    resp         \* what the handler that ran last answered

vars == <<trainings, tasks, calls, resp>>

\* a handler's answer: kind is "json" (body holds what json_response got),
\* "HTTPNotFound", or "raised" (exc left the handler)
Resp(op, m, uuid_, kind, body, exc) ==
    [op |-> op, model |-> m, uuid |-> uuid_, kind |-> kind, body |-> body, exc |-> exc,
     cancel_ret |-> FALSE, timed_out |-> FALSE]

NoResp == Resp("none", "", 0, "none", <<>>, NoneExc)

\* ------------------------------------------------- Handler.build_train_response
\* the cancelled() test put after done(): a cancelled task takes the done
\* branch, where exception() raises CancelledError
build_train_response_done_first(d, tks, uuid_) ==
    LET training == dict_get(d, uuid_)
    IN  IF training = NoneTraining THEN NoneSnap
        ELSE LET task == tks[training.task]
                 exc == task_exception(task)
             IN  IF task_done(task)
                 THEN IF exc.raised # NoneExc
                      THEN [date |-> training.date, uuid |-> uuid_,
                            status |-> "error", message |-> Str(exc.raised)]
                      ELSE IF Truthy(exc.value)
                      THEN [date |-> training.date, uuid |-> uuid_,
                            status |-> "error", message |-> Str(exc.value)]
                      ELSE [date |-> training.date, uuid |-> uuid_, status |-> "done"]
                 ELSE IF task_cancelled(task)
                 THEN [date |-> training.date, uuid |-> uuid_, status |-> "cancelled"]
                 ELSE [date |-> training.date, uuid |-> uuid_, status |-> "running"]

\* the message of an error snapshot left empty
build_train_response_no_message(d, tks, uuid_) ==
    LET training == dict_get(d, uuid_)
    IN  IF training = NoneTraining THEN NoneSnap
        ELSE LET task == tks[training.task]
             IN  IF task_cancelled(task)
                 THEN [date |-> training.date, uuid |-> uuid_, status |-> "cancelled"]
                 ELSE IF task_done(task)
                 THEN IF Truthy(task_exception(task).value)
                      THEN [date |-> training.date, uuid |-> uuid_,
                            status |-> "error", message |-> ""]
                      ELSE [date |-> training.date, uuid |-> uuid_, status |-> "done"]
                 ELSE [date |-> training.date, uuid |-> uuid_, status |-> "running"]

\* the message key set in every snapshot, empty unless the task failed
build_train_response_message_always(d, tks, uuid_) ==
    LET training == dict_get(d, uuid_)
    IN  IF training = NoneTraining THEN NoneSnap
        ELSE LET task == tks[training.task]
             IN  IF task_cancelled(task)
                 THEN [date |-> training.date, uuid |-> uuid_,
                       status |-> "cancelled", message |-> ""]
                 ELSE IF task_done(task)
                 THEN LET exc == task_exception(task).value
                      IN  IF Truthy(exc)
                          THEN [date |-> training.date, uuid |-> uuid_,
                                status |-> "error", message |-> Str(exc)]
                          ELSE [date |-> training.date, uuid |-> uuid_,
                                status |-> "done", message |-> ""]
                 ELSE [date |-> training.date, uuid |-> uuid_,
                       status |-> "running", message |-> ""]

\* cancelled reported as soon as the cancellation has been requested
build_train_response_signal_is_cancelled(d, tks, uuid_) ==
    LET training == dict_get(d, uuid_)
    IN  IF training = NoneTraining THEN NoneSnap
        ELSE LET task == tks[training.task]
             IN  IF task_cancelled(task) \/ task.must_cancel
                 THEN [date |-> training.date, uuid |-> uuid_, status |-> "cancelled"]
                 ELSE IF task_done(task)
                 THEN LET exc == task_exception(task).value
                      IN  IF Truthy(exc)
                          THEN [date |-> training.date, uuid |-> uuid_,
                                status |-> "error", message |-> Str(exc)]
                          ELSE [date |-> training.date, uuid |-> uuid_, status |-> "done"]
                 ELSE [date |-> training.date, uuid |-> uuid_, status |-> "running"]

\* d is the handler's _trainings, tks the task objects; None is NoneSnap
build_train_response(d, tks, uuid_) ==
    LET training == dict_get(d, uuid_)
    IN  IF training = NoneTraining THEN NoneSnap
        ELSE LET task == tks[training.task]
             IN  IF task_cancelled(task)
                 THEN [date |-> training.date, uuid |-> uuid_, status |-> "cancelled"]
                 ELSE IF task_done(task)
                 THEN LET exc == task_exception(task).value
                      IN  IF Truthy(exc)
                          THEN [date |-> training.date, uuid |-> uuid_,
                                status |-> "error", message |-> Str(exc)]
                          ELSE [date |-> training.date, uuid |-> uuid_, status |-> "done"]
                 ELSE [date |-> training.date, uuid |-> uuid_, status |-> "running"]

\* ------------------------------------------------------------ Handler.post
AllKeys == UNION { dict_keys(trainings[m]) : m \in Models }

\* an identifier source that gives the same value every time
uuid4_fixed == { u \in UUIDS : \A v \in UUIDS : u <= v }

\* uuid.uuid4().hex: an identifier no handler has issued. Identifiers are
\* opaque and only compared for equality, so one order of issue stands for all.
uuid4 ==
    LET unused == UUIDS \ AllKeys
    IN  { u \in unused : \A v \in unused : u <= v }

\* str(datetime.datetime.now()): the clock has moved on since the last submission
datetime_now == Len(tasks) + 1

\* a post that waits for the training before it answers
post_awaits(m) ==
    /\ Len(tasks) + Len(calls) < MaxLive
    /\ \E uuid_ \in uuid4, outcome \in Outcomes :
         LET tks == Append(tasks, [train EXCEPT !.state = "FINISHED",
                                                !.exception = outcome])
             d == dict_set(trainings[m], uuid_, datetime_now, Len(tks))
         IN  /\ tasks' = tks
             /\ trainings' = [trainings EXCEPT ![m] = d]
             /\ resp' = Resp("post", m, uuid_, "json",
                             <<build_train_response(d, tks, uuid_)>>, NoneExc)
    /\ UNCHANGED calls

\* a post that stores the record in a dict all handlers share
post_shared(m) ==
    /\ Len(tasks) + Len(calls) < MaxLive
    /\ \E uuid_ \in uuid4 :
         LET tks == Append(tasks, train)
             d == dict_set(trainings[m], uuid_, datetime_now, Len(tks))
         IN  /\ tasks' = tks
             /\ trainings' = [o \in Models |->
                                dict_set(trainings[o], uuid_, datetime_now, Len(tks))]
             /\ resp' = Resp("post", m, uuid_, "json",
                             <<build_train_response(d, tks, uuid_)>>, NoneExc)
    /\ UNCHANGED calls

post(m) ==
    /\ Len(tasks) + Len(calls) < MaxLive
    /\ \E uuid_ \in uuid4 :
         LET tks == Append(tasks, train)
             d == dict_set(trainings[m], uuid_, datetime_now, Len(tks))
         IN  /\ tasks' = tks
             /\ trainings' = [trainings EXCEPT ![m] = d]
             /\ resp' = Resp("post", m, uuid_, "json",
                             <<build_train_response(d, tks, uuid_)>>, NoneExc)
    /\ UNCHANGED calls

\* ------------------------------------------------------------- Handler.get
get(m, uuid_) ==
    LET ret == build_train_response(trainings[m], tasks, uuid_)
    IN  /\ resp' = IF ret # NoneSnap
                   THEN Resp("get", m, uuid_, "json", <<ret>>, NoneExc)
                   ELSE Resp("get", m, uuid_, "HTTPNotFound", <<>>, NoneExc)
        /\ UNCHANGED <<trainings, tasks, calls>>

\* ----------------------------------------------------------- Handler.index
\* a listing that leaves out the record inserted last
index_ret_misses_newest(d, tks) ==
    [i \in 1..(Len(d) - 1) |-> build_train_response(d, tks, d[i].uuid)]

\* a listing that puts the newest record first
index_ret_newest_first(d, tks) ==
    [i \in 1..Len(d) |-> build_train_response(d, tks, d[Len(d) + 1 - i].uuid)]

index_ret(d, tks) ==
    [i \in 1..Len(d) |-> build_train_response(d, tks, d[i].uuid)]

index(m) ==
    /\ resp' = Resp("index", m, 0, "json", index_ret(trainings[m], tasks), NoneExc)
    /\ UNCHANGED <<trainings, tasks, calls>>

\* ---------------------------------------------------------- Handler.delete
\* the call as it suspends in wait_for; cancel_ret is what cancel() returned
Call(m, uuid_, training, cancel_ret) ==
    [model |-> m, uuid |-> uuid_, task |-> training.task, pc |-> "wait_for",
     elapsed |-> 0, cancel_ret |-> cancel_ret, timed_out |-> FALSE]

RemoveAt(seq, i) == SubSeq(seq, 1, i - 1) \o SubSeq(seq, i + 1, Len(seq))

\* a delete that takes the record out of the dict
delete_pops(m, uuid_) ==
    LET training == dict_get(trainings[m], uuid_)
    IN  IF training = NoneTraining
        THEN /\ resp' = Resp("delete", m, uuid_, "HTTPNotFound", <<>>, NoneExc)
             /\ UNCHANGED <<trainings, tasks, calls>>
        ELSE /\ Len(tasks) + Len(calls) < MaxLive
             /\ trainings' = [trainings EXCEPT
                    ![m] = SelectSeq(@, LAMBDA it : it.uuid # uuid_)]
             /\ tasks' = [tasks EXCEPT ![training.task] = task_cancel(@)]
             /\ calls' = Append(calls,
                    Call(m, uuid_, training, ~task_done(tasks[training.task])))
             /\ resp' = NoResp

\* a delete that signals before it looks the record up: with an unknown
\* uuid the signal goes to the task submitted last
delete_signals_first(m, uuid_) ==
    LET training == dict_get(trainings[m], uuid_)
    IN  IF training = NoneTraining
        THEN /\ resp' = Resp("delete", m, uuid_, "HTTPNotFound", <<>>, NoneExc)
             /\ tasks' = IF tasks = <<>> THEN tasks
                         ELSE [tasks EXCEPT ![Len(tasks)] = task_cancel(@)]
             /\ UNCHANGED <<trainings, calls>>
        ELSE /\ Len(tasks) + Len(calls) < MaxLive
             /\ tasks' = [tasks EXCEPT ![training.task] = task_cancel(@)]
             /\ calls' = Append(calls,
                    Call(m, uuid_, training, ~task_done(tasks[training.task])))
             /\ UNCHANGED trainings
             /\ resp' = NoResp

\* a delete that cancels every task there is
delete_cancels_all(m, uuid_) ==
    LET training == dict_get(trainings[m], uuid_)
    IN  IF training = NoneTraining
        THEN /\ resp' = Resp("delete", m, uuid_, "HTTPNotFound", <<>>, NoneExc)
             /\ UNCHANGED <<trainings, tasks, calls>>
        ELSE /\ Len(tasks) + Len(calls) < MaxLive
             /\ tasks' = [t \in 1..Len(tasks) |-> task_cancel(tasks[t])]
             /\ calls' = Append(calls,
                    Call(m, uuid_, training, ~task_done(tasks[training.task])))
             /\ UNCHANGED trainings
             /\ resp' = NoResp

\* lines 89-95, up to the suspension in wait_for: the lookup, then
\* HTTPNotFound, or cancel() and the call waiting
delete(m, uuid_) ==
    LET training == dict_get(trainings[m], uuid_)
    IN  IF training = NoneTraining
        THEN /\ resp' = Resp("delete", m, uuid_, "HTTPNotFound", <<>>, NoneExc)
             /\ UNCHANGED <<trainings, tasks, calls>>
        ELSE /\ Len(tasks) + Len(calls) < MaxLive
             /\ tasks' = [tasks EXCEPT ![training.task] = task_cancel(@)]
             /\ calls' = Append(calls,
                    Call(m, uuid_, training, ~task_done(tasks[training.task])))
             /\ UNCHANGED trainings
             /\ resp' = NoResp

\* what awaiting a done task raises: fut.result()
wait_for_result(task) ==
    IF task_cancelled(task) THEN CancelledError
    ELSE task_exception(task).value

\* lines 94-100 once wait_for has ended with `raised` (NoneExc: it returned):
\* TimeoutError is passed over, anything else leaves the handler
delete_finish(call, raised, d, tks) ==
    [ (IF raised = NoneExc \/ raised = TimeoutError
       THEN Resp("delete", call.model, call.uuid, "json",
                 <<build_train_response(d, tks, call.uuid)>>, NoneExc)
       ELSE Resp("delete", call.model, call.uuid, "raised", <<>>, raised))
      EXCEPT !.cancel_ret = call.cancel_ret, !.timed_out = call.timed_out ]

\* the awaited task is done: wait_for ends with the task's outcome
wait_for_done(c) ==
    /\ calls[c].pc = "wait_for"
    /\ task_done(tasks[calls[c].task])
    /\ resp' = delete_finish(calls[c], wait_for_result(tasks[calls[c].task]),
                             trainings[calls[c].model], tasks)
    /\ calls' = RemoveAt(calls, c)
    /\ UNCHANGED <<trainings, tasks>>

\* the 5 time units are over and the task is not done: wait_for cancels it
\* again; then, by the interpreter's asyncio, it raises TimeoutError at once
\* (Python up to 3.6) or first waits for the task to end (from 3.7 on)
wait_for_timeout(c) ==
    /\ calls[c].pc = "wait_for"
    /\ calls[c].elapsed = Grace
    /\ ~task_done(tasks[calls[c].task])
    /\ tasks' = [tasks EXCEPT ![calls[c].task] = task_cancel(@)]
    /\ \/ /\ resp' = delete_finish([calls[c] EXCEPT !.timed_out = TRUE], TimeoutError,
                                   trainings[calls[c].model], tasks')
          /\ calls' = RemoveAt(calls, c)
       \/ /\ calls' = [calls EXCEPT ![c].pc = "cancel_and_wait",
                                    ![c].timed_out = TRUE]
          /\ resp' = NoResp
    /\ UNCHANGED trainings

\* the task cancelled by the timeout has ended: wait_for raises TimeoutError
\* (Python 3.7 and 3.8), or does so only for a cancelled task and else ends
\* with the task's own outcome (from 3.9 on)
cancel_and_wait_done(c) ==
    /\ calls[c].pc = "cancel_and_wait"
    /\ task_done(tasks[calls[c].task])
    /\ \/ resp' = delete_finish(calls[c], TimeoutError,
                                trainings[calls[c].model], tasks)
       \/ resp' = delete_finish(calls[c],
                      IF task_cancelled(tasks[calls[c].task]) THEN TimeoutError
                      ELSE wait_for_result(tasks[calls[c].task]),
                      trainings[calls[c].model], tasks)
    /\ calls' = RemoveAt(calls, c)
    /\ UNCHANGED <<trainings, tasks>>

\* one time unit passes for every call in wait_for; a due timeout or a done
\* task wakes its call first
Tick ==
    /\ \E c \in 1..Len(calls) : calls[c].pc = "wait_for"
    /\ \A c \in 1..Len(calls) :
         calls[c].pc = "wait_for" =>
           /\ calls[c].elapsed < Grace
           /\ ~task_done(tasks[calls[c].task])
    /\ calls' = [c \in 1..Len(calls) |->
                   IF calls[c].pc = "wait_for"
                   THEN [calls[c] EXCEPT !.elapsed = @ + 1]
                   ELSE calls[c]]
    /\ resp' = NoResp
    /\ UNCHANGED <<trainings, tasks>>

\* ------------------------------------------------- the training in the background
\* the coroutine ends on its own: it returns or raises
TaskComplete(t) ==
    /\ t \in 1..Len(tasks)
    /\ tasks[t].state = "PENDING"
    /\ \E outcome \in Outcomes :
         tasks' = [tasks EXCEPT ![t].state = "FINISHED",
                                ![t].exception = outcome,
                                ![t].must_cancel = FALSE]
    /\ resp' = NoResp
    /\ UNCHANGED <<trainings, calls>>

\* the coroutine lets the CancelledError through: the task is cancelled
TaskHonour(t) ==
    /\ t \in 1..Len(tasks)
    /\ tasks[t].state = "PENDING"
    /\ tasks[t].must_cancel
    /\ tasks' = [tasks EXCEPT ![t].state = "CANCELLED", ![t].must_cancel = FALSE]
    /\ resp' = NoResp
    /\ UNCHANGED <<trainings, calls>>

\* the coroutine catches the CancelledError and goes on
TaskSwallow(t) ==
    /\ t \in 1..Len(tasks)
    /\ tasks[t].state = "PENDING"
    /\ tasks[t].must_cancel
    /\ tasks' = [tasks EXCEPT ![t].must_cancel = FALSE]
    /\ resp' = NoResp
    /\ UNCHANGED <<trainings, calls>>

\* ------------------------------------------------------------ specification
Init ==
    /\ trainings = [m \in Models |-> <<>>]
    /\ tasks = <<>>
    /\ calls = <<>>
    /\ resp = NoResp

Next ==
    \/ \E m \in Routed : post(m)
    \/ \E m \in Routed, uuid_ \in UUIDS : get(m, uuid_)
    \/ \E m \in Routed : index(m)
    \/ \E m \in Routed, uuid_ \in UUIDS : delete(m, uuid_)
    \/ \E c \in 1..Len(calls) : wait_for_done(c)
    \/ \E c \in 1..Len(calls) : wait_for_timeout(c)
    \/ \E c \in 1..Len(calls) : cancel_and_wait_done(c)
    \/ Tick
    \/ \E t \in 1..Len(tasks) : TaskComplete(t)
    \/ \E t \in 1..Len(tasks) : TaskHonour(t)
    \/ \E t \in 1..Len(tasks) : TaskSwallow(t)

Spec == Init /\ [][Next]_vars

\* the event loop runs every task: a coroutine that can end does end
FairSpec == Spec /\ \A t \in 1..MaxLive : WF_vars(TaskComplete(t))

\* setup_routes: every model of V2_MODELS has its own handler and routes. A
\* request names a uuid some handler has issued or one that none has; every
\* uuid of the second kind is answered alike, so one stands for all.
NextModels ==
    \/ \E m \in Models : Len(tasks) < MaxJobs /\ post(m)
    \/ \E m \in Models, uuid_ \in AllKeys \cup uuid4 : get(m, uuid_)
    \/ \E m \in Models : index(m)
    \/ \E m \in Models, uuid_ \in AllKeys \cup uuid4 : delete(m, uuid_)
    \/ \E c \in 1..Len(calls) : wait_for_done(c)
    \/ \E c \in 1..Len(calls) : wait_for_timeout(c)
    \/ \E c \in 1..Len(calls) : cancel_and_wait_done(c)
    \/ Tick
    \/ \E t \in 1..Len(tasks) : TaskComplete(t)
    \/ \E t \in 1..Len(tasks) : TaskHonour(t)
    \/ \E t \in 1..Len(tasks) : TaskSwallow(t)

ModelsSpec == Init /\ [][NextModels]_vars

\* the event loop resumes every delete call that can go on: time passes, a
\* call whose task is done or whose 5 time units are over is woken. Nothing
\* is assumed of the trainings: a coroutine may run for ever.
LoopFairSpec ==
    /\ Spec
    /\ WF_vars(Tick)
    /\ \A c \in 1..MaxLive :
         /\ WF_vars(c \in 1..Len(calls) /\ wait_for_done(c))
         /\ WF_vars(c \in 1..Len(calls) /\ wait_for_timeout(c))
         /\ WF_vars(c \in 1..Len(calls) /\ cancel_and_wait_done(c))

\* ------------------------------------------------------------------ claims
Terminal == {"done", "error", "cancelled"}

\* the task object of job uuid_ of handler m
TaskOf(m, uuid_) == tasks[dict_get(trainings[m], uuid_).task]

\* what a status call on job uuid_ of handler m answers in this state
StatusOf(m, uuid_) == build_train_response(trainings[m], tasks, uuid_)

Known(m, uuid_) == uuid_ \in dict_keys(trainings[m])

\* C1: every job's status is exactly one of cancelled, error, done, running,
\* decided cancelled first, then terminal, then running: a cancelled task is
\* cancelled (never done or error), a task ended by an exception is error, a
\* task ended without one is done, a pending task is running; and that is
\* what get answers.
C1_StatusClassification ==
    /\ \A m \in Models : \A u \in dict_keys(trainings[m]) :
         LET task == TaskOf(m, u)
             st == StatusOf(m, u).status
         IN  /\ st \in {"cancelled", "error", "done", "running"}
             /\ st = "cancelled" <=> task.state = "CANCELLED"
             /\ st = "error" <=> (task.state = "FINISHED" /\ task.exception # NoneExc)
             /\ st = "done" <=> (task.state = "FINISHED" /\ task.exception = NoneExc)
             /\ st = "running" <=> task.state = "PENDING"
    /\ (resp.op = "get" /\ Known(resp.model, resp.uuid)) =>
         /\ resp.kind = "json"
         /\ resp.body[1].status =
              LET task == TaskOf(resp.model, resp.uuid)
              IN  IF task.state = "CANCELLED" THEN "cancelled"
                  ELSE IF task.state = "PENDING" THEN "running"
                  ELSE IF task.exception # NoneExc THEN "error" ELSE "done"

\* get has just answered for a cancelled job
C1_Witness ==
    /\ resp.op = "get"
    /\ resp.kind = "json"
    /\ resp.body[1].status = "cancelled"

\* C2 as claimed: a cancel of a running job whose task is cancelled before the
\* grace period is over returns normally, with the status cancelled.
C2_CancelReturnsCancelled ==
    ( /\ resp.op = "delete"
      /\ resp.kind # "HTTPNotFound"
      /\ resp.cancel_ret
      /\ ~resp.timed_out
      /\ task_cancelled(TaskOf(resp.model, resp.uuid)) )
    => /\ resp.kind = "json"
       /\ resp.body[1].status = "cancelled"

\* C3 as claimed: for a job whose task ended with an exception, status, list
\* and cancel return normally, a snapshot with status error and a message.
C3_FailureNeverReraised ==
    /\ ( /\ resp.op \in {"get", "delete"}
         /\ Known(resp.model, resp.uuid)
         /\ TaskOf(resp.model, resp.uuid).state = "FINISHED"
         /\ TaskOf(resp.model, resp.uuid).exception # NoneExc )
       => /\ resp.kind = "json"
          /\ resp.body[1].status = "error"
          /\ "message" \in DOMAIN resp.body[1]
    /\ resp.op = "index" => resp.kind = "json"

\* C4 as claimed: a cancel of a job that is already done, error or cancelled
\* returns that terminal snapshot, not an error.
C4_CancelOnTerminalReturnsSnapshot ==
    ( /\ resp.op = "delete"
      /\ resp.kind # "HTTPNotFound"
      /\ ~resp.cancel_ret )
    => /\ resp.kind = "json"
       /\ resp.body[1] = StatusOf(resp.model, resp.uuid)
       /\ resp.body[1].status \in Terminal

\* C5 as claimed: a cancel whose grace period ran out before the task ended
\* raises nothing and returns the snapshot of its own uuid, as status gives it.
C5_TimeoutSwallowed ==
    (resp.op = "delete" /\ resp.timed_out)
    => /\ resp.kind = "json"
       /\ resp.exc = NoneExc
       /\ Len(resp.body) = 1
       /\ resp.body[1].uuid = resp.uuid
       /\ resp.body[1] = StatusOf(resp.model, resp.uuid)
       /\ resp.body[1].status \in {"cancelled", "error", "done", "running"}

\* C6: get and delete with a uuid that is no key of the handler's dict answer
\* HTTPNotFound, and that step changes no task, no dict and no waiting call.
C6_NotFound ==
    [][ ( /\ resp'.op \in {"get", "delete"}
          /\ ~Known(resp'.model, resp'.uuid) )
        => /\ resp'.kind = "HTTPNotFound"
           /\ UNCHANGED <<trainings, tasks, calls>> ]_vars

\* delete has answered HTTPNotFound while a job was running
C6_Witness ==
    /\ resp.op = "delete"
    /\ resp.kind = "HTTPNotFound"
    /\ \E t \in 1..Len(tasks) : tasks[t].state = "PENDING"

\* C7: when post returns, the task is not done, post's own snapshot says
\* running and a status call made at once says running too.
C7_SubmitReturnsRunning ==
    resp.op = "post"
    => /\ resp.kind = "json"
       /\ resp.body[1].status = "running"
       /\ Known(resp.model, resp.uuid)
       /\ ~task_done(TaskOf(resp.model, resp.uuid))
       /\ StatusOf(resp.model, resp.uuid).status = "running"

\* post has just returned for the second job
C7_Witness ==
    /\ resp.op = "post"
    /\ Len(tasks) = 2
    /\ resp.body[1].status = "running"

\* C8: once a job's status is done, error or cancelled, no step changes the
\* snapshot status gives for it.
C8_TerminalAbsorbing ==
    [][ \A m \in Models : \A u \in dict_keys(trainings[m]) :
          StatusOf(m, u).status \in Terminal
          => build_train_response(trainings'[m], tasks', u) = StatusOf(m, u) ]_vars

\* a cancel of a job that was already terminal has ended
C8_Witness ==
    /\ resp.op = "delete"
    /\ resp.kind # "HTTPNotFound"
    /\ ~resp.cancel_ret
    /\ StatusOf(resp.model, resp.uuid).status \in Terminal

\* C9 as claimed: a second cancel, one that finds the job already cancelled
\* by an earlier cancel, returns the cancelled snapshot and does not fail.
C9_SecondCancelReturnsSnapshot ==
    ( /\ resp.op = "delete"
      /\ resp.kind # "HTTPNotFound"
      /\ ~resp.cancel_ret
      /\ task_cancelled(TaskOf(resp.model, resp.uuid)) )
    => /\ resp.kind = "json"
       /\ resp.body[1].status = "cancelled"

\* C10 as claimed: every error snapshot carries a non-empty message.
C10_ErrorMessageNonEmpty ==
    \A m \in Models : \A u \in dict_keys(trainings[m]) :
      StatusOf(m, u).status = "error" => StatusOf(m, u).message # ""

\* the job of task t reports the way its task ended
ReportsOutcome(t) ==
    /\ t \in 1..Len(tasks)
    /\ tasks[t].state = "FINISHED"
    /\ \E m \in Models : \E u \in dict_keys(trainings[m]) :
         /\ dict_get(trainings[m], u).task = t
         /\ IF tasks[t].exception = NoneExc
            THEN StatusOf(m, u).status = "done"
            ELSE /\ StatusOf(m, u).status = "error"
                 /\ StatusOf(m, u).message = Str(tasks[t].exception)

CancelRequested(t) ==
    /\ t \in 1..Len(tasks)
    /\ (tasks[t].must_cancel \/ tasks[t].state = "CANCELLED")

\* C10, amended: under fairness a submitted job that nobody cancels comes to
\* report done if its task ends without an exception, and error with the
\* message str(exception) if it ends with one; the message is the text of the
\* failure, which is empty for an exception raised without arguments.
C10_EventuallyDoneOrError ==
    \A t \in 1..MaxLive :
      /\ (t \in 1..Len(tasks) /\ tasks[t].state = "PENDING" /\ ~tasks[t].must_cancel)
         ~> (ReportsOutcome(t) \/ CancelRequested(t))
      /\ []((t \in 1..Len(tasks) /\ tasks[t].state = "FINISHED") => ReportsOutcome(t))

\* one job reports done and another error with the message "bad data"
C10_Witness ==
    \E m \in Models : \E u, v \in dict_keys(trainings[m]) :
      /\ StatusOf(m, u).status = "done"
      /\ StatusOf(m, v).status = "error"
      /\ StatusOf(m, v).message = "bad data"

\* C11: index always answers with a json list; the records of all handlers
\* are as many as the submissions made, the list has one snapshot per record
\* of its handler, in the dict's order, and each is what a status call on
\* that uuid answers in the same state. post inserts the whole record in one
\* step, so a list made between any two steps sees complete records only.
C11_ListMatchesStatus ==
    /\ Len(tasks) = Cardinality({ <<m, u>> \in Models \X UUIDS : Known(m, u) })
    /\ \A m \in Models :
         /\ Len(trainings[m]) = Cardinality(dict_keys(trainings[m]))
         /\ \A i \in 1..Len(trainings[m]) :
              DOMAIN trainings[m][i] = {"uuid", "date", "task"}
    /\ resp.op = "index" =>
         /\ resp.kind = "json"
         /\ resp.exc = NoneExc
         /\ Len(resp.body) = Len(trainings[resp.model])
         /\ \A i \in 1..Len(resp.body) :
              /\ resp.body[i] # NoneSnap
              /\ resp.body[i].uuid = trainings[resp.model][i].uuid
              /\ resp.body[i] = StatusOf(resp.model, resp.body[i].uuid)

\* index has listed three jobs: one running, one done, one cancelled
C11_Witness ==
    /\ resp.op = "index"
    /\ Len(resp.body) = 3
    /\ { resp.body[i].status : i \in 1..3 } = {"running", "done", "cancelled"}

\* C12: every snapshot a handler answers with has the keys uuid, date and
\* status; its uuid is the one asked for (for index, the record's); its date
\* is the date stored in the record, which no step changes once post has
\* stored it; and it has the key message exactly when its status is error.
C12_SnapshotFields ==
    [][ /\ resp'.kind = "json" =>
             \A i \in 1..Len(resp'.body) :
               LET snap == resp'.body[i]
               IN  /\ {"uuid", "date", "status"} \subseteq DOMAIN snap
                   /\ DOMAIN snap \subseteq {"uuid", "date", "status", "message"}
                   /\ resp'.op # "index" => snap.uuid = resp'.uuid
                   /\ snap.uuid \in dict_keys(trainings'[resp'.model])
                   /\ snap.date = dict_get(trainings'[resp'.model], snap.uuid).date
                   /\ ("message" \in DOMAIN snap) <=> (snap.status = "error")
        /\ \A m \in Models : \A u \in dict_keys(trainings[m]) :
             dict_get(trainings'[m], u).date = dict_get(trainings[m], u).date
      ]_vars

\* index has listed an error snapshot, with its message, and a running one
C12_Witness ==
    /\ resp.op = "index"
    /\ \E i, j \in 1..Len(resp.body) :
         /\ resp.body[i].status = "error"
         /\ resp.body[i].message = "bad data"
         /\ resp.body[j].status = "running"
         /\ "message" \notin DOMAIN resp.body[j]
         /\ resp.body[i].date < resp.body[j].date

\* the records of all handlers, as <<model, position>>
Records == { <<m, i>> \in Models \X (1..MaxLive) : i <= Len(trainings[m]) }

\* C13: no step removes a key from a handler's dict or gives a key another
\* task; in every state a key occurs once in its dict and holds one task
\* that exists, and no two records, of one handler or of two, hold the same
\* task.
C13_RegistryInvariant ==
    /\ [][ \A m \in Models : \A u \in dict_keys(trainings[m]) :
             /\ u \in dict_keys(trainings'[m])
             /\ dict_get(trainings'[m], u).task = dict_get(trainings[m], u).task
             /\ Len(trainings'[m]) >= Len(trainings[m]) ]_vars
    /\ [](\A m \in Models :
            Len(trainings[m]) = Cardinality(dict_keys(trainings[m])))
    /\ [](\A r \in Records : trainings[r[1]][r[2]].task \in 1..Len(tasks))
    /\ [](\A r, q \in Records :
            trainings[r[1]][r[2]].task = trainings[q[1]][q[2]].task => r = q)

\* a cancel has ended, by raising, with two jobs in the dict, one of them
\* still running
C13_Witness ==
    /\ resp.op = "delete"
    /\ resp.kind = "raised"
    /\ \E m \in Models :
         /\ Len(trainings[m]) = 2
         /\ \E u \in dict_keys(trainings[m]) : StatusOf(m, u).status = "running"

\* the step in which the delete call at position c of calls, or one ahead of
\* it, ends: the calls behind move up
CallEnds(c) ==
    /\ c <= Len(calls)
    /\ \E k \in 1..c : calls' = RemoveAt(calls, k)

\* C14 as claimed: every delete call that found its job ends, whatever the
\* training does: no call stays for ever at a position of calls. (A call
\* ends by answering or by raising; both count here.)
C14_CancelAlwaysReturns ==
    \A c \in 1..MaxLive :
      \/ []<>(Len(calls) < c)
      \/ []<><<CallEnds(c)>>_vars

\* the status of a job whose task was pending when cancel() was called on it
SignalledStatusOK(m, uuid_) ==
    LET task == TaskOf(m, uuid_)
        st == StatusOf(m, uuid_).status
    IN  /\ task.state = "PENDING" => st = "running"
        /\ task.state = "FINISHED" =>
              st = (IF task.exception = NoneExc THEN "done" ELSE "error")
        /\ task.state = "CANCELLED" <=> st = "cancelled"

\* C15: a job is reported cancelled only when its task is in the cancelled
\* state. A job whose pending task has been asked to cancel, by a delete
\* that still waits or has ended, is reported running while the task has not
\* ended, and done or error when the task ended on its own; the snapshot
\* such a delete returns says the same.
C15_CancellationCooperative ==
    /\ \A m \in Models : \A u \in dict_keys(trainings[m]) :
         /\ StatusOf(m, u).status = "cancelled" => task_cancelled(TaskOf(m, u))
         /\ (TaskOf(m, u).must_cancel /\ ~task_done(TaskOf(m, u)))
              => StatusOf(m, u).status = "running"
    /\ \A c \in 1..Len(calls) :
         calls[c].cancel_ret => SignalledStatusOK(calls[c].model, calls[c].uuid)
    /\ (resp.op = "delete" /\ resp.cancel_ret) =>
         /\ SignalledStatusOK(resp.model, resp.uuid)
         /\ resp.kind = "json" =>
              resp.body[1].status = StatusOf(resp.model, resp.uuid).status

\* a cancel whose 5 time units ran out has returned running: the signal was
\* sent twice and the task has not ended
C15_Witness ==
    /\ resp.op = "delete"
    /\ resp.cancel_ret
    /\ resp.timed_out
    /\ resp.kind = "json"
    /\ resp.body[1].status = "running"
    /\ TaskOf(resp.model, resp.uuid).must_cancel

\* a task that was asked to cancel has gone on and ended by an exception
\* while the delete still waits: the job says error
C15_WitnessIgnored ==
    \E c \in 1..Len(calls) :
      /\ calls[c].cancel_ret
      /\ tasks[calls[c].task].state = "FINISHED"
      /\ StatusOf(calls[c].model, calls[c].uuid).status = "error"

\* C16: a get or index step changes no dict, no task and no waiting call,
\* and is over in that one step; an index that follows an index of the same
\* handler with no step between answers the same list; and every list is in
\* the order of submission: the tasks of its snapshots in creation order,
\* their dates increasing.
C16_ReadOnlyStableOrder ==
    [][ /\ resp'.op \in {"get", "index"} => UNCHANGED <<trainings, tasks, calls>>
        /\ (resp.op = "index" /\ resp'.op = "index" /\ resp'.model = resp.model)
             => resp'.body = resp.body
        /\ resp'.op = "index" =>
             \A i, j \in 1..Len(resp'.body) :
               i < j =>
                 /\ resp'.body[i].date < resp'.body[j].date
                 /\ dict_get(trainings'[resp'.model], resp'.body[i].uuid).task
                      < dict_get(trainings'[resp'.model], resp'.body[j].uuid).task
      ]_vars

\* index has listed two jobs, the older one first, while a delete of the
\* newer one waits
C16_Witness ==
    /\ resp.op = "index"
    /\ Len(resp.body) = 2
    /\ resp.body[1].date < resp.body[2].date
    /\ \E c \in 1..Len(calls) : calls[c].uuid = resp.body[2].uuid

\* this step is a delete that found the job of task t and suspends
DeleteStepOn(t) ==
    /\ Len(calls') = Len(calls) + 1
    /\ SubSeq(calls', 1, Len(calls)) = calls
    /\ LET call == calls'[Len(calls')]
       IN  /\ call.task = t
           /\ dict_get(trainings[call.model], call.uuid) # NoneTraining
           /\ dict_get(trainings[call.model], call.uuid).task = t

\* this step is the timeout of a delete call that waits for task t
TimeoutStepOn(t) ==
    \E c \in 1..Len(calls) :
      /\ calls[c].task = t
      /\ calls[c].pc = "wait_for"
      /\ calls[c].elapsed = Grace
      /\ \/ calls' = RemoveAt(calls, c)
         \/ /\ Len(calls') = Len(calls)
            /\ calls'[c].pc = "cancel_and_wait"

\* C17: a task is asked to cancel only in a delete step for the uuid of its
\* own job, or by the timeout of a delete call waiting for that task; such a
\* step changes no other task and no dict; every waiting call holds the task
\* of the uuid it was called with; and a snapshot delete returns is the one
\* of that uuid.
C17_CancelAffectsOnlyItsJob ==
    [][ /\ \A t \in 1..Len(tasks) :
             (tasks'[t].must_cancel /\ ~tasks[t].must_cancel)
             => /\ DeleteStepOn(t) \/ TimeoutStepOn(t)
                /\ \A o \in 1..Len(tasks) : o # t => tasks'[o] = tasks[o]
                /\ Len(tasks') = Len(tasks)
                /\ UNCHANGED trainings
        /\ \A c \in 1..Len(calls') :
             dict_get(trainings'[calls'[c].model], calls'[c].uuid).task = calls'[c].task
        /\ (resp'.op = "delete" /\ resp'.kind = "json") =>
             /\ Len(resp'.body) = 1
             /\ resp'.body[1].uuid = resp'.uuid
             /\ resp'.body[1] =
                  build_train_response(trainings'[resp'.model], tasks', resp'.uuid)
      ]_vars

\* a cancel of the first job has timed out and returned that job's snapshot
\* while a second job runs on, never asked to cancel
C17_Witness ==
    /\ resp.op = "delete"
    /\ resp.kind = "json"
    /\ resp.uuid = 1
    /\ resp.body[1].uuid = 1
    /\ resp.timed_out
    /\ Known(resp.model, 2)
    /\ StatusOf(resp.model, 2).status = "running"
    /\ ~TaskOf(resp.model, 2).must_cancel

\* C18: a post step puts one record at the end of its handler's dict, under
\* a uuid that was no key of any dict, holding the one task the step
\* creates; the records and tasks there were, the other dicts and the
\* waiting calls stay as they are; and post answers with the snapshot of
\* the new record, under the new uuid, which a get of that uuid resolves.
C18_SubmitInsertsOne ==
    [][ resp'.op = "post" =>
          LET m == resp'.model
              u == resp'.uuid
          IN  /\ u \notin AllKeys
              /\ Len(trainings'[m]) = Len(trainings[m]) + 1
              /\ SubSeq(trainings'[m], 1, Len(trainings[m])) = trainings[m]
              /\ trainings'[m][Len(trainings'[m])].uuid = u
              /\ trainings'[m][Len(trainings'[m])].task = Len(tasks')
              /\ \A o \in Models : o # m => trainings'[o] = trainings[o]
              /\ Len(tasks') = Len(tasks) + 1
              /\ SubSeq(tasks', 1, Len(tasks)) = tasks
              /\ UNCHANGED calls
              /\ resp'.kind = "json"
              /\ Len(resp'.body) = 1
              /\ resp'.body[1].uuid = u
              /\ resp'.body[1] = build_train_response(trainings'[m], tasks', u)
              /\ build_train_response(trainings'[m], tasks', u) # NoneSnap
      ]_vars

\* post has returned for a second job while a delete of the first, whose
\* task was asked to cancel, still waits
C18_Witness ==
    /\ resp.op = "post"
    /\ resp.uuid = 2
    /\ Len(calls) = 1
    /\ calls[1].uuid = 1
    /\ tasks[calls[1].task].must_cancel
    /\ StatusOf(resp.model, 2).status = "running"

\* the handlers other than m that hold a record under uuid_
OtherOwners(m, uuid_) == { o \in Models \ {m} : Known(o, uuid_) }

\* C19: every handler has its own dict: no uuid is a key of two dicts and no
\* task is held by records of two; a get or delete through a handler for a
\* uuid that another handler holds answers HTTPNotFound, and that step
\* changes no dict, task or waiting call; an index lists only its own
\* handler's records; and a delete call waits only for a job of the handler
\* it came through.
C19_RegistriesIsolated ==
    /\ [](\A m \in Models : \A u \in dict_keys(trainings[m]) :
            /\ OtherOwners(m, u) = {}
            /\ \A o \in Models \ {m} : \A v \in dict_keys(trainings[o]) :
                 dict_get(trainings[o], v).task # dict_get(trainings[m], u).task)
    /\ [](resp.op = "index" =>
            \A i \in 1..Len(resp.body) :
              /\ Known(resp.model, resp.body[i].uuid)
              /\ OtherOwners(resp.model, resp.body[i].uuid) = {})
    /\ [](\A c \in 1..Len(calls) : Known(calls[c].model, calls[c].uuid))
    /\ [][ ( /\ resp'.op \in {"get", "delete"}
              /\ OtherOwners(resp'.model, resp'.uuid) # {} )
            => /\ resp'.kind = "HTTPNotFound"
               /\ UNCHANGED <<trainings, tasks, calls>> ]_vars

\* a delete through m2 of a job that runs in m1 has answered HTTPNotFound,
\* the job runs on unasked, and m2 has a job of its own
C19_Witness ==
    /\ resp.op = "delete"
    /\ resp.model = "m2"
    /\ resp.kind = "HTTPNotFound"
    /\ Known("m1", resp.uuid)
    /\ StatusOf("m1", resp.uuid).status = "running"
    /\ ~TaskOf("m1", resp.uuid).must_cancel
    /\ Len(trainings["m2"]) = 1

====
